---- MODULE Spec2Model ----
(***************************************************************************)
(* Model of backup_script.py: find_latest_backup and run_backup.           *)
(*                                                                         *)
(* The destination directory is a map from entry names to entries.  A      *)
(* snapshot name is the text strftime produces; the model keeps the        *)
(* seconds field of '%Y-%m-%d_%H-%M-%S' (the other fields are a common     *)
(* prefix) as a sequence of character codes: digits are 0..9 and a letter  *)
(* is LetterA, which sorts after every digit as in Python's str order.     *)
(* A file is a path relative to the source root with a content; a content  *)
(* has a byte size and a version that tells apart contents of equal size.  *)
(* One run of run_backup is the actions Start, ProcessFile (one iteration  *)
(* of the per-file loop) and WriteLog (log file and summary).              *)
(***************************************************************************)
EXTENDS Integers, Sequences, FiniteSets, TLC

\* ------------------------------------------------------------------ bounds
MaxRuns   == 2      \* invocations of run_backup in one behaviour
MaxClock  == 2      \* the wall clock runs over the seconds 1..MaxClock
MaxSize   == 1      \* file sizes are 1..MaxSize bytes
MaxFaults == 1      \* environment faults (I/O errors) in one behaviour
MaxDepth  == 5      \* the longest path, in components, the file system accepts

\* ------------------------------------------------------- names and files
LetterA == 10
None    == <<>>                 \* Python None / a falsy path
LogName == "backup_log.txt"
Paths   == {LogName, "sub/b.txt"}
Root    == "."

\* os.path.dirname(relative_path), relative to the snapshot root
DirOf(p) == IF p = "sub/b.txt" THEN "sub" ELSE Root

Sizes    == 1..MaxSize
LogVer   == 0                   \* version tag of a written log text
\* the contents a source file can have; the files already in the
\* destination carry version 2, a written log LogVer
Contents == [size : Sizes, ver : {1}]

\* one entry of log_messages / one line on sys.stderr: the fixed wording,
\* the relative path it names ("" if none), the directory it names
Msg(k, p)    == [kind |-> k, path |-> p, dir |-> None]
DirMsg(k, n) == [kind |-> k, path |-> "", dir |-> n]

\* the text of a log file: NoLog until the run has written it
NoLog == [written |-> FALSE, header |-> <<>>, lines |-> <<>>]

\* a directory entry of the destination without anything in it
EmptyDir == [isdir |-> TRUE, files |-> <<>>, dirs |-> {}]
PlainFile == [isdir |-> FALSE, files |-> <<>>, dirs |-> {}]

\* ------------------------------------------------------ timestamp format
\* datetime.now().strftime(...): two zero-padded digits
Strftime(t) == <<t \div 10, t % 10>>

\* datetime.strptime(entry, ...) does not raise ValueError: the whole name
\* must match, the directive %S takes one or two digits, and datetime
\* refuses a second above 59
StrptimeOK(n) ==
    \/ Len(n) = 1 /\ n[1] \in 0..9
    \/ Len(n) = 2 /\ n[1] \in 0..5 /\ n[2] \in 0..9

\* the second the accepted name denotes
SecondOf(n) == IF Len(n) = 1 THEN n[1] ELSE 10 * n[1] + n[2]

Min(a, b) == IF a < b THEN a ELSE b

\* Python's str order a < b
LexLess(a, b) ==
    \E i \in 1..(Min(Len(a), Len(b)) + 1) :
        /\ \A j \in 1..(i - 1) : a[j] = b[j]
        /\ \/ i > Len(a) /\ i <= Len(b)
           \/ i <= Len(a) /\ i <= Len(b) /\ a[i] < b[i]

\* the names find_latest_backup retains
BackupFolders(d) == {n \in DOMAIN d : d[n].isdir /\ StrptimeOK(n)}

\* find_latest_backup(destination_dir); listOk = FALSE is os.listdir or
\* os.path.isdir raising, which the function turns into None
FindLatestBackup(d, listOk) ==
    IF ~listOk \/ BackupFolders(d) = {} THEN None
    ELSE CHOOSE n \in BackupFolders(d) :
            \A m \in BackupFolders(d) : m = n \/ LexLess(m, n)

\* ------------------------------------------------------------- the state
VARIABLES
    clock,              \* the wall clock, in seconds
    dest,               \* destination_dir: entry name -> entry
    source,             \* source_dir: relative path -> content
    runs,               \* invocations so far
    faults,             \* environment faults so far
    pc,                 \* position of the current invocation
    full_backup,        \* argument full_backup
    dry_run,            \* argument dry_run
    backup_path,        \* timestamp / backup_folder_name / backup_path
    latest_backup_dir,  \* result of find_latest_backup, or None
    log_messages,       \* the log list
    files_to_copy,
    files_skipped,
    total_files,
    todo,               \* files os.walk has not yet yielded
    stderr,             \* diagnostics written to sys.stderr by this run
    summary,            \* the printed summary, <<>> until printed
    log_file,           \* the text this run wrote to backup_log.txt
    dest0,              \* the destination as it was when the run was called
    decisions,          \* per processed file, what the loop decided
    after_dry,          \* the previous invocation was a dry run
    twin,               \* the destination had that dry run not happened
    twin_latest,        \* find_latest_backup on twin
    twin_decisions,     \* per processed file, the decision made on twin
    tree,               \* source_dir when destination_dir lies inside it
    walk                \* the position of os.walk in tree

runVars  == <<full_backup, dry_run, backup_path, latest_backup_dir,
              log_messages, files_to_copy, files_skipped, total_files,
              todo, stderr, summary, log_file, decisions>>
twinVars == <<after_dry, twin, twin_latest, twin_decisions>>
nestVars == <<tree, walk>>
vars     == <<clock, dest, source, runs, faults, pc, runVars, dest0, twinVars,
              nestVars>>

\* --------------------------------------------------------- initial state
\* tree and walk while the destination lies outside the source
NoTree == [files |-> <<>>, dirs |-> {}]
NoWalk == [stack |-> <<>>, cur |-> <<>>, files |-> {}]

SourceTrees ==
    UNION {[ps -> Contents] : ps \in SUBSET Paths}

\* a snapshot of second 0 left by an earlier full run, beside a directory
\* named 'archive' and a regular file whose name has the timestamp format
OldDest ==
    (<<0, 0>> :> [isdir |-> TRUE,
                  files |-> ("sub/b.txt" :> [size |-> 1, ver |-> 2]) @@
                            (LogName :> [size |-> 1, ver |-> LogVer]),
                  dirs  |-> {"sub"}])
    @@ (<<LetterA>> :> EmptyDir)
    @@ (<<5, 9>> :> PlainFile)

\* a directory whose name strptime accepts although it is not zero-padded
UnpaddedDest ==
    (<<9>> :> [isdir |-> TRUE,
               files |-> ("sub/b.txt" :> [size |-> 1, ver |-> 2]) @@
                         (LogName :> [size |-> MaxSize + 1, ver |-> 2]),
               dirs  |-> {"sub"}])

InitDests == {<<>>, OldDest, UnpaddedDest}

Init ==
    /\ clock = 1
    /\ dest \in InitDests
    /\ source \in SourceTrees
    /\ runs = 0
    /\ faults = 0
    /\ pc = "idle"
    /\ full_backup = FALSE
    /\ dry_run = FALSE
    /\ backup_path = None
    /\ latest_backup_dir = None
    /\ log_messages = <<>>
    /\ files_to_copy = 0
    /\ files_skipped = 0
    /\ total_files = 0
    /\ todo = {}
    /\ stderr = <<>>
    /\ summary = <<>>
    /\ log_file = NoLog
    /\ dest0 = dest
    /\ decisions = <<>>
    /\ after_dry = FALSE
    /\ twin = dest
    /\ twin_latest = None
    /\ twin_decisions = <<>>
    /\ tree = NoTree
    /\ walk = NoWalk

\* ------------------------------------------------- run_backup, per file
\* os.path.exists(os.path.join(latest_backup_dir, relative_path))
Exists(d, latest, f) == f \in DOMAIN d[latest].files

\* Decide that takes two files for identical only if their contents agree
DecideByContent(d, full, latest, f, c, statOk) ==
    IF ~full /\ latest # None
    THEN IF Exists(d, latest, f)
         THEN IF ~statOk THEN "size_error"
              ELSE IF c = d[latest].files[f] THEN "skip"
              ELSE "updated"
         ELSE "new"
    ELSE "copy"

\* lines 110-126: what the loop does with file f of content c.
\* statOk = FALSE is os.path.getsize raising OSError
Decide(d, full, latest, f, c, statOk) ==
    IF ~full /\ latest # None
    THEN IF Exists(d, latest, f)
         THEN IF ~statOk THEN "size_error"
              ELSE IF c.size = d[latest].files[f].size THEN "skip"
              ELSE "updated"
         ELSE "new"
    ELSE "copy"

\* the copy-or-skip reading of a decision
CopyOrSkip(dec) == IF dec = "skip" THEN "skip" ELSE "copy"

\* the size comparison of line 116 was evaluated
Compared(dec) == dec \in {"skip", "updated", "size_error"}

\* line 128: os.makedirs(os.path.dirname(destination_file), exist_ok=True)
\* raises; a directory that exists already never makes it raise
MakedirsRaises(d, bp, f, mkdirOk) ==
    DirOf(f) # Root /\ DirOf(f) \notin d[bp].dirs /\ ~mkdirOk

AfterMakedirs(d, bp, f) ==
    IF DirOf(f) = Root THEN d
    ELSE [d EXCEPT ![bp].dirs = @ \cup {DirOf(f)}]

\* line 133: shutil.copy2(source_file, destination_file) succeeded
AfterCopy(d, bp, f, c) ==
    [d EXCEPT ![bp].files = (f :> c) @@ @]

CopyOutcomes == {"ok", "same_file", "permission", "error"}

\* the destination after one iteration of the loop (lines 104-152)
AfterFile(d, bp, f, c, dec, dry, mkdirOk, outcome) ==
    IF dec = "skip" \/ MakedirsRaises(d, bp, f, mkdirOk) THEN d
    ELSE IF ~dry /\ outcome = "ok"
         THEN AfterCopy(AfterMakedirs(d, bp, f), bp, f, c)
         ELSE AfterMakedirs(d, bp, f)

\* the log line of the copy step (lines 131-152)
CopyMsg(f, dry, outcome) ==
    IF dry THEN Msg("(Dry Run) Would copy", f)
    ELSE IF outcome = "ok" THEN Msg("Copied", f)
    ELSE IF outcome = "same_file" THEN Msg("Warning: Skipped", f)
    ELSE IF outcome = "permission" THEN Msg("Permission denied. Skipped", f)
    ELSE Msg("Unexpected error. Skipped", f)

CopyErr(f, outcome) ==
    IF outcome = "same_file" THEN Msg("Warning: File is already in destination", f)
    ELSE IF outcome = "permission" THEN Msg("Error: Permission denied", f)
    ELSE Msg("Unexpected error copying", f)

\* os.walk(source_dir) is top-down: the files of the root directory come
\* before those of its subdirectories, each directory in listing order
NextFiles(td) ==
    IF \E f \in td : DirOf(f) = Root THEN {f \in td : DirOf(f) = Root} ELSE td

\* the faults an iteration consumed: a fault input counts where the code
\* reaches the call it is about
FileFaults(d, bp, f, dec, dry, statOk, mkdirOk, outcome) ==
    (IF Compared(dec) /\ ~statOk THEN 1 ELSE 0)
    + (IF dec # "skip" /\ MakedirsRaises(d, bp, f, mkdirOk) THEN 1 ELSE 0)
    + (IF dec # "skip" /\ ~MakedirsRaises(d, bp, f, mkdirOk) /\ ~dry /\ outcome # "ok"
       THEN 1 ELSE 0)

\* FileLog with the line of line 118 left out
FileLogNoSkipLine(f, dec, dry, raises, outcome) ==
    IF dec = "skip" THEN <<>>
    ELSE (IF dec = "updated" THEN <<Msg("Found updated file", f)>> ELSE <<>>)
         \o (IF raises THEN <<>> ELSE <<CopyMsg(f, dry, outcome)>>)

\* the log lines of one iteration
FileLog(f, dec, dry, raises, outcome) ==
    IF dec = "skip" THEN <<Msg("Skipped identical file", f)>>
    ELSE (IF dec = "updated" THEN <<Msg("Found updated file", f)>> ELSE <<>>)
         \o (IF raises THEN <<>> ELSE <<CopyMsg(f, dry, outcome)>>)

\* FileErr with the message of line 125 left out
FileErrNoSizeWarning(f, dec, dry, raises, outcome) ==
    (IF raises THEN <<Msg("Traceback: os.makedirs raised OSError", f)>> ELSE <<>>)
    \o (IF dec # "skip" /\ ~raises /\ ~dry /\ outcome # "ok"
        THEN <<CopyErr(f, outcome)>> ELSE <<>>)

\* the stderr lines of one iteration; the interpreter reports the uncaught
\* exception of line 128 there
FileErr(f, dec, dry, raises, outcome) ==
    (IF dec = "size_error" THEN <<Msg("Error checking file size", f)>> ELSE <<>>)
    \o (IF raises THEN <<Msg("Traceback: os.makedirs raised OSError", f)>> ELSE <<>>)
    \o (IF dec # "skip" /\ ~raises /\ ~dry /\ outcome # "ok"
        THEN <<CopyErr(f, outcome)>> ELSE <<>>)

\* SkippedInc with the increment of line 144 left out
SkippedIncNoPermission(dec, dry, raises, outcome) ==
    IF dec = "skip" THEN 1
    ELSE IF ~raises /\ ~dry /\ outcome \in {"same_file", "error"} THEN 1 ELSE 0

\* the increment of files_skipped in one iteration (lines 119, 140, 144, 148)
SkippedInc(dec, dry, raises, outcome) ==
    IF dec = "skip" THEN 1
    ELSE IF ~raises /\ ~dry /\ outcome # "ok" THEN 1 ELSE 0

\* CopiedInc that counts a file whose copy raised
CopiedIncOnFailure(dec, dry, raises, outcome) ==
    IF dec # "skip" /\ ~raises THEN 1 ELSE 0

\* the increment of files_to_copy in one iteration (lines 136, 152)
CopiedInc(dec, dry, raises, outcome) ==
    IF dec # "skip" /\ ~raises /\ (dry \/ outcome = "ok") THEN 1 ELSE 0

\* ------------------------------------------------------ run_backup, start
\* line 66: the seconds datetime.now() can show at an invocation.  Time
\* does not run backwards; the code tells two times apart only by the
\* names they give, so one second between invocations stands for any gap
Now == clock..Min(clock + 1, MaxClock)

\* line 81: os.makedirs(backup_path, exist_ok=True)
MkSnapshot(d, name) == IF name \in DOMAIN d THEN d ELSE (name :> EmptyDir) @@ d

\* line 81 raises OSError: the environment refuses, or a regular file has
\* the name
MkSnapshotRaises(d, name, mkOk) ==
    ~mkOk \/ (name \in DOMAIN d /\ ~d[name].isdir)

Idle == pc \in {"idle", "returned", "done", "crashed"}

\* the previous invocation passed validation and was a dry run
WasDry == pc \in {"done", "crashed"} /\ dry_run

\* EarlyReturnDest that has made the snapshot directory before returning
EarlyReturnDestMade(d, t) == MkSnapshot(d, Strftime(t))

\* lines 58-63 and 84-85: a return that precedes, or follows a failed,
\* os.makedirs(backup_path) leaves the destination as it was
EarlyReturnDest(d, t) == d

\* an invocation that returned before the loop: nothing but the
\* diagnostic is left of it
Returned(t, err) ==
    /\ clock' = t
    /\ runs' = runs + 1
    /\ pc' = "returned"
    /\ full_backup' = FALSE
    /\ dry_run' = FALSE
    /\ backup_path' = None
    /\ latest_backup_dir' = None
    /\ log_messages' = <<>>
    /\ files_to_copy' = 0
    /\ files_skipped' = 0
    /\ total_files' = 0
    /\ todo' = {}
    /\ stderr' = <<err>>
    /\ summary' = <<>>
    /\ log_file' = NoLog
    /\ decisions' = <<>>
    /\ dest0' = dest
    /\ after_dry' = FALSE
    /\ twin' = dest
    /\ twin_latest' = None
    /\ twin_decisions' = <<>>
    /\ dest' = EarlyReturnDest(dest, t)
    /\ UNCHANGED <<source, nestVars>>

\* lines 58-63: source_dir or destination_dir is not a directory
RejectPaths ==
    /\ Idle
    /\ runs < MaxRuns
    /\ \E t \in Now, srcIsDir \in BOOLEAN, dstIsDir \in BOOLEAN :
        /\ ~(srcIsDir /\ dstIsDir)
        /\ Returned(t, IF ~srcIsDir THEN Msg("Error: Source path is not a valid directory", "")
                        ELSE Msg("Error: Destination path is not a valid directory", ""))
        /\ UNCHANGED faults

\* lines 66-85 when os.makedirs(backup_path) raises OSError
StartFails ==
    /\ Idle
    /\ runs < MaxRuns
    /\ \E t \in Now, mkOk \in BOOLEAN :
        /\ MkSnapshotRaises(dest, Strftime(t), mkOk)
        /\ faults + (IF mkOk THEN 0 ELSE 1) <= MaxFaults
        /\ faults' = faults + (IF mkOk THEN 0 ELSE 1)
        /\ Returned(t, DirMsg("Error: Failed to create destination directory", Strftime(t)))

\* ResolveBaseline that looks for a baseline in full mode too
ResolveBaselineAlways(d, full, listOk) == FindLatestBackup(d, listOk)

\* lines 88-90: find_latest_backup is called in incremental mode only
ResolveBaseline(d, full, listOk) ==
    IF full THEN None ELSE FindLatestBackup(d, listOk)

\* the log lines of lines 82-96
StartLog(name, full, latest) ==
    <<DirMsg("Created new backup directory", name)>>
    \o (IF full THEN <<>>
        ELSE IF latest # None
             THEN <<DirMsg("Performing incremental backup against", latest)>>
             ELSE <<Msg("No previous backups found. Performing a full backup.", "")>>)

\* lines 58-101: validation passed and the snapshot directory was made
Start ==
    /\ Idle
    /\ runs < MaxRuns
    /\ \E t \in Now, full \in BOOLEAN, dry \in BOOLEAN, listOk \in BOOLEAN :
        LET name   == Strftime(t)
            d1     == MkSnapshot(dest, name)
            latest == ResolveBaseline(d1, full, listOk)
            nf     == IF ~full /\ ~listOk THEN 1 ELSE 0
            t1     == MkSnapshot(IF WasDry THEN twin ELSE dest, name)
        IN  /\ ~MkSnapshotRaises(dest, name, TRUE)
            /\ faults + nf <= MaxFaults
            /\ faults' = faults + nf
            /\ clock' = t
            /\ runs' = runs + 1
            /\ pc' = "loop"
            /\ full_backup' = full
            /\ dry_run' = dry
            /\ backup_path' = name
            /\ dest' = d1
            /\ latest_backup_dir' = latest
            /\ log_messages' = StartLog(name, full, latest)
            /\ files_to_copy' = 0
            /\ files_skipped' = 0
            /\ total_files' = 0
            /\ todo' = DOMAIN source
            /\ stderr' = IF nf = 1
                         THEN <<Msg("Error: Could not find latest backup folder", "")>>
                         ELSE <<>>
            /\ summary' = <<>>
            /\ log_file' = NoLog
            /\ decisions' = <<>>
            /\ dest0' = dest
            /\ after_dry' = (~dry /\ WasDry)
            /\ twin' = IF dry THEN dest ELSE t1
            /\ twin_latest' = IF dry THEN None ELSE ResolveBaseline(t1, full, listOk)
            /\ twin_decisions' = <<>>
            /\ UNCHANGED <<source, nestVars>>

\* lines 103-152: one iteration of the loop over the files of the walk
ProcessFile ==
    /\ pc = "loop"
    /\ todo # {}
    /\ \E f \in NextFiles(todo), statOk \in BOOLEAN, mkdirOk \in BOOLEAN,
          outcome \in CopyOutcomes :
        LET c      == source[f]
            dec    == Decide(dest, full_backup, latest_backup_dir, f, c, statOk)
            raises == dec # "skip" /\ MakedirsRaises(dest, backup_path, f, mkdirOk)
            nf     == FileFaults(dest, backup_path, f, dec, dry_run, statOk, mkdirOk, outcome)
            tdec   == Decide(twin, full_backup, twin_latest, f, c, statOk)
        IN  /\ faults + nf <= MaxFaults
            /\ faults' = faults + nf
            /\ total_files' = total_files + 1
            /\ todo' = todo \ {f}
            /\ decisions' = (f :> dec) @@ decisions
            /\ dest' = AfterFile(dest, backup_path, f, c, dec, dry_run, mkdirOk, outcome)
            /\ log_messages' = log_messages \o FileLog(f, dec, dry_run, raises, outcome)
            /\ stderr' = stderr \o FileErr(f, dec, dry_run, raises, outcome)
            /\ files_skipped' = files_skipped + SkippedInc(dec, dry_run, raises, outcome)
            /\ files_to_copy' = files_to_copy + CopiedInc(dec, dry_run, raises, outcome)
            /\ pc' = IF raises THEN "crashed" ELSE "loop"
            /\ IF dry_run
               THEN UNCHANGED <<twin, twin_decisions>>
               ELSE /\ twin' = AfterFile(twin, backup_path, f, c, tdec, dry_run, mkdirOk, outcome)
                    /\ twin_decisions' = (f :> tdec) @@ twin_decisions
            /\ UNCHANGED <<clock, source, runs, full_backup, dry_run, backup_path,
                           latest_backup_dir, summary, log_file, dest0, after_dry,
                           twin_latest, nestVars>>

\* lines 157-161: the header block
LogHeader(ts, full, dry) ==
    [timestamp |-> ts,
     type      |-> IF full THEN "Full" ELSE "Incremental",
     dry       |-> IF dry THEN "Yes" ELSE "No"]

\* the byte size of the written text, in the unit of Sizes: one per action
\* line, and no more than the largest size the model tells apart
LogSize(msgs) == Min(Len(msgs), MaxSize)

\* line 156: open(log_file_path, 'w') creates or truncates the file
AfterWriteLog(d, bp, msgs) ==
    [d EXCEPT ![bp].files = (LogName :> [size |-> LogSize(msgs), ver |-> LogVer]) @@ @]

\* lines 157-164: what is written
LogText(ts, full, dry, msgs) ==
    [written |-> TRUE, header |-> LogHeader(ts, full, dry), lines |-> msgs]

\* lines 154-174: the loop is over; the log file is written and the summary
\* printed.  writeOk = FALSE is open or write raising
WriteLog ==
    /\ pc = "loop"
    /\ todo = {}
    /\ \E writeOk \in BOOLEAN :
        /\ faults + (IF writeOk THEN 0 ELSE 1) <= MaxFaults
        /\ faults' = faults + (IF writeOk THEN 0 ELSE 1)
        /\ dest' = IF writeOk
                   THEN AfterWriteLog(dest, backup_path, log_messages)
                   ELSE dest
        /\ log_file' = IF writeOk
                       THEN LogText(backup_path, full_backup, dry_run, log_messages)
                       ELSE NoLog
        /\ stderr' = IF writeOk THEN stderr
                     ELSE stderr \o <<Msg("Error: Could not write backup log file", "")>>
        /\ twin' = IF writeOk /\ ~dry_run
                   THEN AfterWriteLog(twin, backup_path, log_messages)
                   ELSE twin
    /\ summary' = [total |-> total_files, copied |-> files_to_copy,
                   skipped |-> files_skipped, dry |-> dry_run]
    /\ pc' = "done"
    /\ UNCHANGED <<clock, source, runs, full_backup, dry_run, backup_path,
                   latest_backup_dir, log_messages, files_to_copy, files_skipped,
                   total_files, todo, decisions, dest0, after_dry, twin_latest,
                   twin_decisions, nestVars>>

Next == RejectPaths \/ StartFails \/ Start \/ ProcessFile \/ WriteLog

Spec == Init /\ [][Next]_vars

\* ================================================================ claims
InRun == pc \in {"loop", "done", "crashed"}

\* C1: in an incremental run the baseline find_latest_backup resolves is
\* none or a snapshot directory that was in the destination before the run
\* was called, and never the directory the run itself has just created.
C1_BaselineIsPrior ==
    (InRun /\ ~full_backup) =>
        \/ latest_backup_dir = None
        \/ /\ latest_backup_dir \in BackupFolders(dest0)
           /\ latest_backup_dir # backup_path

\* C2: between iterations of the loop and at the summary,
\* total_files = files_to_copy + files_skipped, and the printed summary
\* shows the same equality.
C2_CountersBalance ==
    /\ pc \in {"loop", "done"} => total_files = files_to_copy + files_skipped
    /\ pc = "done" => summary.total = summary.copied + summary.skipped

\* a finished non-dry run that copied a file and lost another to a copy error
C2_Witness ==
    /\ pc = "done"
    /\ ~dry_run
    /\ summary.copied >= 1
    /\ summary.skipped >= 1
    /\ \E i \in 1..Len(log_messages) :
          log_messages[i].kind = "Permission denied. Skipped"

\* the step is one iteration of the per-file loop
IsIteration == pc = "loop" /\ todo' # todo

\* the file the iteration is about
Current == CHOOSE f \in todo : f \notin todo'

Last(sq) == sq[Len(sq)]

\* the log lines the step appended
Appended == SubSeq(log_messages', Len(log_messages) + 1, Len(log_messages'))

CopyStepKinds == {"(Dry Run) Would copy", "Copied", "Warning: Skipped",
                  "Permission denied. Skipped", "Unexpected error. Skipped"}
CopyFailureKinds == {"Warning: Skipped", "Permission denied. Skipped",
                     "Unexpected error. Skipped"}

\* the iteration went on to copy file f: it reached os.makedirs, and unless
\* that raised, the copy step logged its outcome for f
WentOnToCopy(f) ==
    \/ pc' = "crashed"
    \/ /\ Appended # <<>>
       /\ Last(Appended).kind \in CopyStepKinds
       /\ Last(Appended).path = f

\* the iteration skipped file f as identical
SkippedAsIdentical(f) ==
    /\ Appended = <<Msg("Skipped identical file", f)>>
    /\ files_skipped' = files_skipped + 1
    /\ files_to_copy' = files_to_copy
    /\ dest' = dest
    /\ pc' = "loop"

C3_Iteration(f) ==
    LET base     == dest[latest_backup_dir].files
        sizeRead == decisions'[f] # "size_error"
    IN  /\ f \notin DOMAIN base =>
              decisions'[f] = "new" /\ WentOnToCopy(f)
        /\ (f \in DOMAIN base /\ sizeRead /\ source[f].size # base[f].size) =>
              /\ decisions'[f] = "updated"
              /\ Appended # <<>>
              /\ Appended[1] = Msg("Found updated file", f)
              /\ WentOnToCopy(f)
        /\ (f \in DOMAIN base /\ sizeRead /\ source[f].size = base[f].size) =>
              decisions'[f] = "skip" /\ SkippedAsIdentical(f)

\* C3: in an incremental run with a resolved baseline, an iteration whose
\* size reads succeed treats its file by relative path and byte size alone:
\* absent from the baseline, it goes on to copy it; present with another
\* size, it logs it as updated and goes on to copy it; present with the
\* same size, it skips it and counts it as skipped, whatever the contents.
C3_SizeOnlyDecision ==
    [][(IsIteration /\ ~full_backup /\ latest_backup_dir # None)
          => C3_Iteration(Current)]_vars

\* an incremental run skipped a file whose content differs from the
\* baseline's file of the same size, and treated another as updated
C3_Witness ==
    /\ InRun /\ ~full_backup /\ latest_backup_dir # None
    /\ \E f \in DOMAIN decisions :
          /\ decisions[f] = "skip"
          /\ f \in DOMAIN dest[latest_backup_dir].files
          /\ dest[latest_backup_dir].files[f].size = source[f].size
          /\ dest[latest_backup_dir].files[f].ver # source[f].ver
    /\ \E g \in DOMAIN decisions : decisions[g] = "updated"

\* C4: an incremental run on a destination without a prior snapshot decides
\* to copy every file, as a full run does, and its log has the line saying
\* that no previous backup was found and a full backup is performed.
C4_DegradesToFull ==
    (InRun /\ ~full_backup /\ BackupFolders(dest0) = {}) =>
        /\ \A f \in DOMAIN decisions : decisions[f] \in {"copy", "new"}
        /\ files_skipped = Cardinality({i \in 1..Len(log_messages) :
                               log_messages[i].kind \in CopyFailureKinds})
        /\ \E i \in 1..Len(log_messages) :
              log_messages[i].kind = "No previous backups found. Performing a full backup."

\* the entry of the new snapshot as it was when the run was called
Base0(n) == IF n \in DOMAIN dest0 THEN dest0[n] ELSE EmptyDir

\* files map fs without the log file
SansLog(fs) == [f \in DOMAIN fs \ {LogName} |-> fs[f]]

\* C5: a dry run changes nothing under the destination but the snapshot
\* root directory and the backup_log.txt in it: no file is copied and no
\* other directory is made.
C5_DryRunFrame ==
    (InRun /\ dry_run) =>
        \A n \in DOMAIN dest :
            IF n = backup_path
            THEN /\ dest[n].isdir
                 /\ dest[n].dirs = Base0(n).dirs
                 /\ SansLog(dest[n].files) = SansLog(Base0(n).files)
            ELSE n \in DOMAIN dest0 /\ dest[n] = dest0[n]

\* C6: a real run right after a dry run decides copy or skip for every
\* file as it does from the destination in which the dry run never
\* happened.
C6_DryRunInvisible ==
    (InRun /\ after_dry) =>
        \A f \in DOMAIN decisions :
            CopyOrSkip(decisions[f]) = CopyOrSkip(twin_decisions[f])

\* C7: a run leaves every entry that was in the destination when it was
\* called, the snapshots of earlier runs among them, as it found it.
C7_AppendOnly ==
    InRun => \A n \in DOMAIN dest0 : n \in DOMAIN dest /\ dest[n] = dest0[n]

\* the step appended a line to sys.stderr
ErrAppended == Len(stderr') > Len(stderr)

\* the copy of the iteration raised (lines 137-148)
CopyRaised ==
    /\ ErrAppended
    /\ Last(stderr').kind \in {"Warning: File is already in destination",
                               "Error: Permission denied",
                               "Unexpected error copying"}

\* the files map without file f
Sans(fs, f) == [g \in DOMAIN fs \ {f} |-> fs[g]]

C8_Iteration(f) ==
    /\ Appended # <<>>
    /\ Last(Appended).kind \in CopyFailureKinds
    /\ Last(Appended).path = f
    /\ files_skipped' = files_skipped + 1
    /\ files_to_copy' = files_to_copy
    /\ pc' = "loop"
    /\ todo' = todo \ {f}
    /\ Sans(dest'[backup_path].files, f) = Sans(dest[backup_path].files, f)

\* every file that has had its iteration has a line of the copy step, or
\* was skipped as identical
AllDecided ==
    \A f \in DOMAIN source :
        /\ f \in DOMAIN decisions
        /\ \E i \in 1..Len(log_messages) :
              /\ log_messages[i].path = f
              /\ log_messages[i].kind \in CopyStepKinds \cup {"Skipped identical file"}

\* C8: in a non-dry run, an iteration whose copy raises logs the file's
\* relative path, adds one to files_skipped and nothing to files_to_copy,
\* leaves the other files of the snapshot and the rest of the walk as they
\* were, and the loop goes on; a run that gets through the loop has decided
\* every file and printed the summary of all of them.
C8_CopyFailureIsolated ==
    /\ [][(IsIteration /\ ~dry_run /\ CopyRaised) => C8_Iteration(Current)]_vars
    /\ [](pc = "done" => (AllDecided /\ summary.total = Cardinality(DOMAIN source)))

\* a finished non-dry run in which one copy raised SameFileError and
\* another file was copied after it, with the log written
C8_Witness ==
    /\ pc = "done" /\ ~dry_run /\ log_file.written
    /\ \E i, j \in 1..Len(log_messages) :
          /\ i < j
          /\ log_messages[i].kind = "Warning: Skipped"
          /\ log_messages[j].kind = "Copied"
          /\ log_messages[j].path # log_messages[i].path
    /\ summary = [total |-> 2, copied |-> 1, skipped |-> 1, dry |-> FALSE]

\* os.makedirs of line 128 raised in the iteration
MakedirsRaised ==
    /\ ErrAppended
    /\ Last(stderr').kind = "Traceback: os.makedirs raised OSError"

\* C9: an iteration in which the intermediate directories cannot be made
\* counts its file as skipped and the loop goes on to the remaining files,
\* the log and the summary.
C9_MakedirsFailureIsolated ==
    [][(IsIteration /\ MakedirsRaised) =>
          /\ pc' = "loop"
          /\ files_skipped' = files_skipped + 1
          /\ files_to_copy' = files_to_copy]_vars

\* C10: a full run resolves no baseline, never evaluates the size
\* comparison and skips no file as identical: every iteration goes on to
\* copy its file, and at the summary every file of the source has had its
\* iteration.
C10_FullCopiesAll ==
    (InRun /\ full_backup) =>
        /\ latest_backup_dir = None
        /\ \A f \in DOMAIN decisions : decisions[f] = "copy"
        /\ \A i \in 1..Len(log_messages) :
              log_messages[i].kind \notin {"Skipped identical file", "Found updated file"}
        /\ \A i \in 1..Len(stderr) : stderr[i].kind # "Error checking file size"
        /\ pc = "done" =>
              /\ DOMAIN decisions = DOMAIN source
              /\ \A f \in DOMAIN source :
                    \E i \in 1..Len(log_messages) :
                        /\ log_messages[i].path = f
                        /\ log_messages[i].kind \in CopyStepKinds

\* a finished full run copied a file that a snapshot already in the
\* destination holds with the same size
C10_Witness ==
    /\ pc = "done" /\ full_backup /\ ~dry_run
    /\ \E f \in DOMAIN source, n \in BackupFolders(dest0) :
          /\ f \in DOMAIN dest0[n].files
          /\ dest0[n].files[f].size = source[f].size
          /\ f \in DOMAIN dest[backup_path].files
          /\ dest[backup_path].files[f] = source[f]

\* ------------------------------------------- find_latest_backup on its own
\* entry names of a destination: '09', '9', '10' and 'a'
FindNames == {<<0, 9>>, <<9>>, <<1, 0>>, <<LetterA>>}

\* the destinations whose entries have these names, each a directory or a
\* regular file
FindDests == UNION {[ns -> {EmptyDir, PlainFile}] : ns \in SUBSET FindNames}

\* no invocation of run_backup has happened
NoRun ==
    /\ clock = 1
    /\ runs = 0
    /\ faults = 0
    /\ pc = "idle"
    /\ full_backup = FALSE
    /\ dry_run = FALSE
    /\ backup_path = None
    /\ latest_backup_dir = None
    /\ log_messages = <<>>
    /\ files_to_copy = 0
    /\ files_skipped = 0
    /\ total_files = 0
    /\ todo = {}
    /\ stderr = <<>>
    /\ summary = <<>>
    /\ log_file = NoLog
    /\ decisions = <<>>
    /\ after_dry = FALSE
    /\ twin_latest = None
    /\ twin_decisions = <<>>

InitFind ==
    /\ dest \in FindDests
    /\ source = <<>>
    /\ NoRun
    /\ dest0 = dest
    /\ twin = dest
    /\ tree = NoTree
    /\ walk = NoWalk

\* lines 24-43: one call of find_latest_backup(destination_dir)
CallFindLatest ==
    /\ pc = "idle"
    /\ \E listOk \in BOOLEAN :
        /\ faults + (IF listOk THEN 0 ELSE 1) <= MaxFaults
        /\ faults' = faults + (IF listOk THEN 0 ELSE 1)
        /\ latest_backup_dir' = FindLatestBackup(dest, listOk)
        /\ stderr' = IF listOk THEN <<>>
                     ELSE <<Msg("Error: Could not find latest backup folder", "")>>
    /\ pc' = "found"
    /\ UNCHANGED <<clock, dest, source, runs, full_backup, dry_run, backup_path,
                   log_messages, files_to_copy, files_skipped, total_files, todo,
                   summary, log_file, decisions, dest0, twinVars, nestVars>>

NextFind == CallFindLatest

SpecFind == InitFind /\ [][NextFind]_vars

\* C11: when the listing succeeds, find_latest_backup returns None if it
\* retains no entry, and otherwise a directory whose name strptime accepts
\* and whose time is the latest of the retained ones; the str order of the
\* retained names agrees with the order of their times.
C11_LatestIsMostRecent ==
    (pc = "found" /\ stderr = <<>>) =>
        LET kept == {n \in DOMAIN dest : dest[n].isdir /\ StrptimeOK(n)}
        IN  /\ kept = {} => latest_backup_dir = None
            /\ kept # {} =>
                  /\ latest_backup_dir \in kept
                  /\ \A m \in kept : SecondOf(m) <= SecondOf(latest_backup_dir)
            /\ \A m, n \in kept : LexLess(m, n) => SecondOf(m) <= SecondOf(n)

\* C12: when source_dir or destination_dir is not an existing directory,
\* run_backup returns with the destination and the source as they were: no
\* snapshot directory, no copied file and no backup_log.txt.
C12_InvalidPathsNoMutation ==
    [][(runs' # runs /\ pc' = "returned"
        /\ stderr'[1].kind \in {"Error: Source path is not a valid directory",
                                "Error: Destination path is not a valid directory"})
       => /\ dest' = dest
          /\ source' = source
          /\ backup_path' = None
          /\ log_messages' = <<>>
          /\ log_file' = NoLog]_vars

C12_Witness ==
    /\ pc = "returned"
    /\ runs = 2
    /\ stderr = <<Msg("Error: Destination path is not a valid directory", "")>>
    /\ dest # <<>>

\* the lines of the written log that name file f
LinesOf(f) == {i \in 1..Len(log_file.lines) : log_file.lines[i].path = f}

\* files of the root directory are traversed before those of subdirectories
TraversedBefore(f, g) == DirOf(f) = Root /\ DirOf(g) # Root

\* C13 as stated: the written log has exactly one line for each processed
\* source file, and the lines of the files are in traversal order.
C13_OneLinePerFile ==
    (pc = "done" /\ log_file.written) =>
        /\ \A f \in DOMAIN source : Cardinality(LinesOf(f)) = 1
        /\ \A f, g \in DOMAIN source :
              TraversedBefore(f, g) =>
                  \A i \in LinesOf(f), j \in LinesOf(g) : i < j

ActionKinds == CopyStepKinds \cup {"Skipped identical file"}

C13_Iteration(f) ==
    /\ SubSeq(log_messages', 1, Len(log_messages)) = log_messages
    /\ \A i \in 1..Len(Appended) : Appended[i].path = f
    /\ IF decisions'[f] = "updated"
       THEN /\ Len(Appended) = 2
            /\ Appended[1] = Msg("Found updated file", f)
            /\ Appended[2].kind \in CopyStepKinds
       ELSE /\ Len(Appended) = 1
            /\ Appended[1].kind \in ActionKinds

\* C13, amended: every iteration that completes appends the lines of its
\* file, and only those, to the end of the log: one action line, preceded
\* by a 'Found updated file' line when the file is in the baseline with
\* another size.  The written log holds these lines in that order, so a
\* file has two lines if it was updated and one otherwise.
C13_LinesPerFile ==
    /\ [][(IsIteration /\ pc' = "loop") => C13_Iteration(Current)]_vars
    /\ [][(pc = "loop" /\ pc' = "done" /\ log_file'.written)
            => log_file'.lines = log_messages]_vars
    /\ []((pc = "done" /\ log_file.written) =>
            /\ \A f \in DOMAIN source :
                  Cardinality(LinesOf(f)) = IF decisions[f] = "updated" THEN 2 ELSE 1
            /\ \A f, g \in DOMAIN source :
                  TraversedBefore(f, g) =>
                      \A i \in LinesOf(f), j \in LinesOf(g) : i < j)

C13_Witness ==
    /\ pc = "done"
    /\ log_file.written
    /\ \E f, g \in DOMAIN source :
        /\ decisions[f] = "updated"
        /\ decisions[g] = "skip"
        /\ Cardinality(LinesOf(f)) = 2
        /\ Cardinality(LinesOf(g)) = 1

\* the stderr lines the step appended
NewErr == SubSeq(stderr', Len(stderr) + 1, Len(stderr'))

C14_Iteration(f) ==
    /\ NewErr # <<>>
    /\ NewErr[1] = Msg("Error checking file size", f)
    /\ \A i \in 1..Len(Appended) : Appended[i].kind # "Skipped identical file"
    /\ WentOnToCopy(f)
    /\ pc' = "loop" =>
          IF Last(Appended).kind \in CopyFailureKinds
          THEN files_to_copy' = files_to_copy /\ files_skipped' = files_skipped + 1
          ELSE files_to_copy' = files_to_copy + 1 /\ files_skipped' = files_skipped

\* C14: in an incremental run, an iteration in which reading a size raised
\* prints the warning for its file, logs no 'Skipped identical file' line
\* and goes on to the copy step; unless the copy itself fails, the file is
\* counted as copied (would-copy in a dry run) and not as skipped.
C14_SizeErrorCopies ==
    [][(IsIteration /\ ~full_backup /\ decisions'[Current] = "size_error")
       => C14_Iteration(Current)]_vars

C14_Witness ==
    /\ ~full_backup
    /\ latest_backup_dir # None
    /\ \E f \in DOMAIN decisions :
        /\ decisions[f] = "size_error"
        /\ f \in DOMAIN dest0[latest_backup_dir].files
        /\ dest0[latest_backup_dir].files[f].size = source[f].size
        /\ Msg("Error checking file size", f) \in {stderr[i] : i \in 1..Len(stderr)}
        /\ Last(log_messages) \in {Msg("Copied", f), Msg("(Dry Run) Would copy", f)}
        /\ files_to_copy >= 1

\* ---------------------------------- a destination inside the source tree
\* A path is the sequence of its components below source_dir, a component a
\* sequence of character codes as the snapshot names are.  tree is the file
\* system below source_dir: the content of every regular file and the set
\* of directories.
LetterD == 13
LetterL == 21
LetterX == 33
FileA   == <<LetterA>>          \* a file 'a' of the source
FileX   == <<LetterX>>          \* a file 'x' lying in the destination
LogFile == <<LetterL>>          \* 'backup_log.txt'
DstName == <<LetterD>>
DstPath == <<DstName>>          \* destination_dir, relative to source_dir

ParentOf(p) == SubSeq(p, 1, Len(p) - 1)
Prefixes(p) == {SubSeq(p, 1, k) : k \in 1..Len(p)}
Below(base, ps) == {SubSeq(q, Len(base) + 1, Len(q)) :
                      q \in {r \in ps : Len(r) > Len(base)
                                        /\ SubSeq(r, 1, Len(base)) = base}}

\* os.makedirs(p, exist_ok=True) and shutil.copy2 on the tree
TreeMakedirs(tr, p) == [tr EXCEPT !.dirs = @ \cup Prefixes(p)]
TreeCopy(tr, p, c)  == [tr EXCEPT !.files = (p :> c) @@ @]

\* os.scandir(d): the subdirectories and the regular files of directory d
ListDirs(tr, d)  == {p \in tr.dirs : Len(p) = Len(d) + 1 /\ ParentOf(p) = d}
ListFiles(tr, d) == {p \in DOMAIN tr.files : Len(p) = Len(d) + 1 /\ ParentOf(p) = d}

\* the orders in which a listing can give the entries
Orders(S) == {sq \in [1..Cardinality(S) -> S] :
                \A i, j \in 1..Cardinality(S) : i # j => sq[i] # sq[j]}

\* the destination directory as the run sees it: its entries, and below
\* each of them the files and directories by relative path
DestView(tr) ==
    [n \in {p[2] : p \in {q \in tr.dirs \cup DOMAIN tr.files :
                            Len(q) = 2 /\ q[1] = DstName}} |->
        [isdir |-> <<DstName, n>> \in tr.dirs,
         files |-> [r \in Below(<<DstName, n>>, DOMAIN tr.files) |->
                       tr.files[<<DstName, n>> \o r]],
         dirs  |-> Below(<<DstName, n>>, tr.dirs)]]

\* os.path.join(backup_path, relative_path), below source_dir
DestinationFile(bp, rel) == DstPath \o <<bp>> \o rel

\* the files the tree can hold before the run: 'a' in the source root, 'x'
\* in the destination, and the copy of 'a' in the snapshot of second 0
NestedPaths == {<<FileA>>, <<DstName, FileX>>, <<DstName, Strftime(0), FileA>>}

InitTrees ==
    {[files |-> fs,
      dirs  |-> {DstPath} \cup UNION {Prefixes(ParentOf(q)) : q \in DOMAIN fs}] :
        fs \in UNION {[ps -> Contents] : ps \in SUBSET NestedPaths}}

InitNested ==
    /\ tree \in InitTrees
    /\ walk = NoWalk
    /\ source = tree.files
    /\ dest = DestView(tree)
    /\ NoRun
    /\ dest0 = dest
    /\ twin = dest

\* lines 58-101 and the call of os.walk(source_dir) of line 103
NestedStart ==
    /\ pc = "idle"
    /\ \E t \in Now, full \in BOOLEAN, dry \in BOOLEAN :
        LET name   == Strftime(t)
            tr1    == TreeMakedirs(tree, DstPath \o <<name>>)
            latest == ResolveBaseline(DestView(tr1), full, TRUE)
        IN  /\ clock' = t
            /\ runs' = runs + 1
            /\ pc' = "loop"
            /\ full_backup' = full
            /\ dry_run' = dry
            /\ backup_path' = name
            /\ tree' = tr1
            /\ dest' = DestView(tr1)
            /\ latest_backup_dir' = latest
            /\ log_messages' = StartLog(name, full, latest)
            /\ walk' = [stack |-> <<<<>>>>, cur |-> <<>>, files |-> {}]
            /\ dest0' = dest
    /\ UNCHANGED <<source, faults, files_to_copy, files_skipped, total_files,
                   todo, stderr, summary, log_file, decisions, twinVars>>

\* line 103: os.walk moves on to the next directory, top-down, and lists it
\* then: the directories of the listing are visited before those pending
NestedScan ==
    /\ pc = "loop"
    /\ walk.files = {}
    /\ walk.stack # <<>>
    /\ LET d == Head(walk.stack)
       IN  \E order \in Orders(ListDirs(tree, d)) :
              walk' = [stack |-> order \o Tail(walk.stack),
                       cur   |-> d,
                       files |-> ListFiles(tree, d)]
    /\ UNCHANGED <<clock, dest, source, runs, faults, pc, runVars, dest0,
                   twinVars, tree>>

\* lines 104-152: one iteration of the inner loop.  os.makedirs raises
\* OSError for a directory path the file system does not accept, and
\* shutil.copy2 for such a file path
NestedFile ==
    /\ pc = "loop"
    /\ walk.files # {}
    /\ \E f \in walk.files :
        LET c       == tree.files[f]
            dec     == Decide(dest, full_backup, latest_backup_dir, f, c, TRUE)
            target  == DestinationFile(backup_path, f)
            raises  == dec # "skip" /\ Len(ParentOf(target)) > MaxDepth
            outcome == IF Len(target) > MaxDepth THEN "error" ELSE "ok"
            tr1     == IF dec = "skip" \/ raises THEN tree
                       ELSE IF ~dry_run /\ outcome = "ok"
                            THEN TreeCopy(TreeMakedirs(tree, ParentOf(target)), target, c)
                            ELSE TreeMakedirs(tree, ParentOf(target))
        IN  /\ total_files' = total_files + 1
            /\ walk' = [walk EXCEPT !.files = @ \ {f}]
            /\ decisions' = (f :> dec) @@ decisions
            /\ tree' = tr1
            /\ dest' = DestView(tr1)
            /\ log_messages' = log_messages \o FileLog(f, dec, dry_run, raises, outcome)
            /\ stderr' = stderr \o FileErr(f, dec, dry_run, raises, outcome)
            /\ files_skipped' = files_skipped + SkippedInc(dec, dry_run, raises, outcome)
            /\ files_to_copy' = files_to_copy + CopiedInc(dec, dry_run, raises, outcome)
            /\ pc' = IF raises THEN "crashed" ELSE "loop"
    /\ UNCHANGED <<clock, source, runs, faults, full_backup, dry_run, backup_path,
                   latest_backup_dir, todo, summary, log_file, dest0, twinVars>>

\* lines 154-174: the walk is exhausted; the log file is written and the
\* summary printed
NestedWriteLog ==
    /\ pc = "loop"
    /\ walk.files = {}
    /\ walk.stack = <<>>
    /\ tree' = TreeCopy(tree, DestinationFile(backup_path, <<LogFile>>),
                        [size |-> LogSize(log_messages), ver |-> LogVer])
    /\ dest' = DestView(tree')
    /\ log_file' = LogText(backup_path, full_backup, dry_run, log_messages)
    /\ summary' = [total |-> total_files, copied |-> files_to_copy,
                   skipped |-> files_skipped, dry |-> dry_run]
    /\ pc' = "done"
    /\ UNCHANGED <<clock, source, runs, faults, full_backup, dry_run, backup_path,
                   latest_backup_dir, log_messages, files_to_copy, files_skipped,
                   total_files, todo, stderr, decisions, dest0, twinVars, walk>>

NextNested == NestedStart \/ NestedScan \/ NestedFile \/ NestedWriteLog

SpecNested == InitNested /\ [][NextNested]_vars

\* C15: with the destination inside the source tree, the files a run
\* processes are files the source tree held when the run was called, none
\* of them a file the run wrote itself, and the run is not cut short before
\* the summary.
C15_WalkStaysInSource ==
    pc \in {"loop", "done", "crashed"} =>
        /\ DOMAIN decisions \subseteq DOMAIN source
        /\ pc # "crashed"
====
